---- MODULE Spec2Model ----
(***************************************************************************)
(* Model of scripts/migrate-beads.py: one run of main(), which lists the   *)
(* open beads, classifies them, creates destination epics and tasks via    *)
(* flowctl and writes the bead -> flow id mapping file.                    *)
(*                                                                         *)
(* A bead id is modelled as the sequence of its '.'-separated segments,    *)
(* and a segment as a sequence of tokens (a decimal digit, or an opaque    *)
(* non-digit text), so that rsplit('.', 1) and int() are computed.         *)
(***************************************************************************)
EXTENDS Integers, Sequences, FiniteSets, TLC

\* ------------------------------------------------------------- bounds
\* most beads listed behind the open epics of the pre-defined order
MaxRest == 2
\* most destination create calls that fail in one run
MaxFailures == 1

\* ------------------------------------------------------------- bead ids
Digits == {"0", "1", "2", "3", "4", "5", "6", "7", "8", "9"}

DigitVal(c) ==
    CASE c = "0" -> 0 [] c = "1" -> 1 [] c = "2" -> 2 [] c = "3" -> 3
      [] c = "4" -> 4 [] c = "5" -> 5 [] c = "6" -> 6 [] c = "7" -> 7
      [] c = "8" -> 8 [] c = "9" -> 9

GNO_UB9 == << <<"gno-ub9">> >>
GNO_65X == << <<"gno-65x">> >>
GNO_2YB == << <<"gno-2yb">> >>
GNO_B0N == << <<"gno-b0n">> >>
UB9_1 == << <<"gno-ub9">>, <<"1">> >>
UB9_2 == << <<"gno-ub9">>, <<"2">> >>
A == << <<"a">> >>
A_1 == << <<"a">>, <<"1">> >>
A_01 == << <<"a">>, <<"0", "1">> >>
A_Y == << <<"a">>, <<"y">> >>
A_1_2 == << <<"a">>, <<"1">>, <<"2">> >>

\* '.' in bid
HasDot(bid) == Len(bid) > 1

\* bid.rsplit('.', 1)[0]
Parent(bid) == SubSeq(bid, 1, Len(bid) - 1)

\* bid.rsplit('.', 1)[1]
Suffix(bid) == bid[Len(bid)]

\* int(s) raises ValueError unless s is a non-empty run of digits
IntRaises(seg) == Len(seg) = 0 \/ \E i \in 1..Len(seg) : seg[i] \notin Digits

RECURSIVE IntOf(_)
IntOf(seg) ==
    IF Len(seg) = 0 THEN 0
    ELSE 10 * IntOf(SubSeq(seg, 1, Len(seg) - 1)) + DigitVal(seg[Len(seg)])

\* ------------------------------------------------------------- beads
Bead(bid, type) == [id |-> bid, issue_type |-> type]

\* the epics of the pre-defined order other than gno-ub9, as open epics
PreOrdered == << Bead(GNO_65X, "epic"), Bead(GNO_2YB, "epic"), Bead(GNO_B0N, "epic") >>

\* the open epics of the pre-defined order a listing starts with
Heads ==
    { << >>, << Bead(GNO_UB9, "epic") >>, PreOrdered, PreOrdered \o << Bead(GNO_UB9, "epic") >> }

RestBeads ==
    { Bead(GNO_UB9, "task"), Bead(A, "task"),
      Bead(UB9_1, "task"), Bead(UB9_2, "task"), Bead(A_1, "task"),
      Bead(A_01, "task"), Bead(A_Y, "task"), Bead(A_1_2, "task") }

DistinctIds(bs) == \A i, j \in 1..Len(bs) : i # j => bs[i].id # bs[j].id

RECURSIVE SeqsUpTo(_, _)
SeqsUpTo(S, n) ==
    IF n = 0 THEN { <<>> }
    ELSE LET shorter == SeqsUpTo(S, n - 1)
         IN  shorter \cup { Append(s, x) : s \in { t \in shorter : Len(t) = n - 1 }, x \in S }

\* the open-bead lists the run is started on
Sources ==
    { bs \in { head \o rest : head \in Heads, rest \in SeqsUpTo(RestBeads, MaxRest) } :
        DistinctIds(bs) }

\* ------------------------------------------------------------- dicts
\* a Python dict keeps insertion order: a sequence of [key, val]
DictKeys(d) == [i \in 1..Len(d) |-> d[i].key]
DictHas(d, k) == \E i \in 1..Len(d) : d[i].key = k
DictGet(d, k) == d[CHOOSE i \in 1..Len(d) : d[i].key = k].val
DictPut(d, k, v) ==
    IF DictHas(d, k)
    THEN [i \in 1..Len(d) |-> IF d[i].key = k THEN [key |-> k, val |-> v] ELSE d[i]]
    ELSE Append(d, [key |-> k, val |-> v])

SeqToSet(s) == { s[i] : i \in 1..Len(s) }

\* ------------------------------------------------------------- state
VARIABLES
    pc,            \* the place main() has reached
    error,         \* the exception that ended the run, "" for none
    source,        \* the open beads the source tracker holds
    listing,       \* how the `bd list` subprocess ended
    beads,         \* main: beads
    epics,         \* main: epics (dict)
    subtasks,      \* main: subtasks (dict parent -> list)
    standalone,    \* main: standalone (list)
    parents,       \* list(subtasks.keys()) of the implicit-epic loop
    pi,            \* index of that loop
    shown,         \* the get_bead calls made: [id, outcome]
    bead_to_flow,  \* main: bead_to_flow
    epic_order,    \* main: epic_order
    ei,            \* index of the epic loop
    si,            \* index of the standalone loop
    gi,            \* index of the subtasks.items() loop
    ti,            \* index of the task loop of one epic
    flow_epic,     \* main: flow_epic
    calls,         \* the flowctl create calls issued, in order
    files,         \* the spec files written
    stderr,        \* the number of reports printed to sys.stderr
    warned,        \* the parents of "Warning: No flow epic for ..."
    next_id,       \* the next id the destination assigns
    failures,      \* destination create calls that failed so far
    mapping_file   \* the contents written to .flow/bead-mapping.json, in order

vars == << pc, error, source, listing, beads, epics, subtasks, standalone, parents,
           pi, shown, bead_to_flow, epic_order, ei, si, gi, ti, flow_epic, calls,
           files, stderr, warned, next_id, failures, mapping_file >>

\* ------------------------------------------------------------- destination ids
NoFlow == [kind |-> "none", n |-> 0]
FN_1 == [kind |-> "epic", n |-> 1]
EpicFlowId(n) == [kind |-> "epic", n |-> n]
TaskFlowId(n) == [kind |-> "task", n |-> n]

\* ------------------------------------------------------------- flowctl
\* how one flowctl subprocess can end
FlowctlOutcomes == { "created", "refused", "exit_nonzero", "invalid_json" }

\* the value flowctl() returns: None (parsed = FALSE) or the parsed JSON object
flowctl(outcome, id) ==
    CASE outcome = "exit_nonzero" -> [parsed |-> FALSE, success |-> FALSE, id |-> NoFlow]
      [] outcome = "invalid_json" -> [parsed |-> FALSE, success |-> FALSE, id |-> NoFlow]
      [] outcome = "refused" -> [parsed |-> TRUE, success |-> FALSE, id |-> NoFlow]
      [] outcome = "created" -> [parsed |-> TRUE, success |-> TRUE, id |-> id]

\* the reports flowctl() prints to sys.stderr: "Error: ..." or "Invalid JSON: ..."
flowctlStderr(outcome) ==
    CASE outcome = "exit_nonzero" -> 1
      [] outcome = "invalid_json" -> 1
      [] OTHER -> 0

\* `result and result.get('success')`
Succeeded(result) == result.parsed /\ result.success

\* one flowctl create call: its arguments (the title stands as the source id it is
\* taken from, implement for the "Implement: " prefix), whether the caller took it
\* as created, and the id it returned
Call(cmd, epic, src, implement, result) ==
    [cmd |-> cmd, epic |-> epic, src |-> src, implement |-> implement,
     created |-> Succeeded(result), id |-> result.id]

SpecFile(id) == [dir |-> "specs", id |-> id]
TaskFile(id) == [dir |-> "tasks", id |-> id]

\* ------------------------------------------------------------- classification
EmptyClasses == [epics |-> << >>, subtasks |-> << >>, standalone |-> << >>]

\* one iteration of `for b in beads`
ClassifyBead(st, b) ==
    IF HasDot(b.id)
    THEN LET parent == Parent(b.id)
             old == IF DictHas(st.subtasks, parent) THEN DictGet(st.subtasks, parent) ELSE << >>
         IN  [st EXCEPT !.subtasks = DictPut(st.subtasks, parent, Append(old, b))]
    ELSE IF b.issue_type = "epic"
    THEN [st EXCEPT !.epics = DictPut(st.epics, b.id, b)]
    ELSE [st EXCEPT !.standalone = Append(st.standalone, b)]

RECURSIVE ClassifyAll(_, _)
ClassifyAll(st, bs) ==
    IF bs = << >> THEN st ELSE ClassifyAll(ClassifyBead(st, Head(bs)), Tail(bs))

\* the record `bd show <id>` prints for a bead that exists
ShownBead(bid) ==
    IF \E i \in 1..Len(source) : source[i].id = bid
    THEN source[CHOOSE i \in 1..Len(source) : source[i].id = bid]
    ELSE Bead(bid, "epic")

\* the filter of line 72 left out: a promoted parent stays in standalone
DropStandaloneKeepsParent(sl, parent) == sl

\* the filter of line 72 with its test inverted: only the parent is kept
DropStandaloneInverted(sl, parent) ==
    LET Keep(s) == s.id = parent IN SelectSeq(sl, Keep)

\* standalone = [s for s in standalone if s['id'] != parent]
DropStandalone(sl, parent) ==
    LET Keep(s) == s.id # parent IN SelectSeq(sl, Keep)

\* epic_order: the pre-defined order, then the other keys of epics
RECURSIVE ExtendOrder(_, _)
ExtendOrder(order, keys) ==
    IF keys = << >> THEN order
    ELSE ExtendOrder(IF Head(keys) \in SeqToSet(order) THEN order ELSE Append(order, Head(keys)),
                     Tail(keys))

EpicOrder(eps) == ExtendOrder(<< GNO_UB9, GNO_65X, GNO_2YB, GNO_B0N >>, DictKeys(eps))

\* ------------------------------------------------------------- task order
\* key=lambda t: int(t['id'].rsplit('.', 1)[1]) if '.' in t['id'] else 0
SortKey(t) == IF HasDot(t.id) THEN IntOf(Suffix(t.id)) ELSE 0
SortKeyRaises(t) == HasDot(t.id) /\ IntRaises(Suffix(t.id))

\* list.sort is stable: t goes behind every element whose key is not larger
InsertByKey(sorted, t) ==
    LET n == Cardinality({ i \in 1..Len(sorted) : SortKey(sorted[i]) <= SortKey(t) })
    IN  SubSeq(sorted, 1, n) \o << t >> \o SubSeq(sorted, n + 1, Len(sorted))

RECURSIVE SortFrom(_, _)
SortFrom(sorted, rest) ==
    IF rest = << >> THEN sorted ELSE SortFrom(InsertByKey(sorted, Head(rest)), Tail(rest))

\* the sort of line 172 left out: the tasks stay in listing order
SortTasksListingOrder(tasks) == tasks

\* tasks.sort(key=...)
SortTasks(tasks) == SortFrom(<< >>, tasks)

\* ------------------------------------------------------------- the run
Init ==
    /\ source \in Sources
    /\ pc = "get_beads"
    /\ error = ""
    /\ listing = "none"
    /\ beads = << >>
    /\ epics = << >>
    /\ subtasks = << >>
    /\ standalone = << >>
    /\ parents = << >>
    /\ pi = 1
    /\ shown = << >>
    /\ bead_to_flow = << >>
    /\ epic_order = << >>
    /\ ei = 1
    /\ si = 1
    /\ gi = 1
    /\ ti = 1
    /\ flow_epic = NoFlow
    /\ calls = << >>
    /\ files = {}
    /\ stderr = 0
    /\ warned = {}
    /\ next_id = 2
    /\ failures = 0
    /\ mapping_file = << >>

\* an exception nothing catches ends the run
Raise(exc) == pc' = "crashed" /\ error' = exc

\* how the `bd list` subprocess can end: "ok" prints the JSON array of open beads,
\* "exit_nonzero" exits non-zero with nothing on stdout, "invalid_json" exits 0 with
\* a stdout that is no JSON; get_beads never looks at the exit status
ListOutcomes == { "ok", "exit_nonzero", "invalid_json" }

\* beads = get_beads(), lines 24-30 and 46
GetBeads ==
    /\ pc = "get_beads"
    /\ \E outcome \in ListOutcomes :
         /\ listing' = outcome
         /\ IF outcome = "ok"
            THEN /\ beads' = source
                 /\ pc' = "classify"
                 /\ error' = error
            ELSE /\ Raise("JSONDecodeError")
                 /\ beads' = beads
    /\ UNCHANGED << source, epics, subtasks, standalone, parents, pi, shown, bead_to_flow,
                    epic_order, ei, si, gi, ti, flow_epic, calls, files, stderr, warned,
                    next_id, failures, mapping_file >>

\* the classification pass, lines 48-63, and list(subtasks.keys()) of line 66
Classify ==
    /\ pc = "classify"
    /\ LET st == ClassifyAll(EmptyClasses, beads)
       IN  /\ epics' = st.epics
           /\ subtasks' = st.subtasks
           /\ standalone' = st.standalone
           /\ parents' = DictKeys(st.subtasks)
    /\ pi' = 1
    /\ pc' = "implicit"
    /\ UNCHANGED << error, source, listing, beads, shown, bead_to_flow, epic_order, ei, si,
                    gi, ti, flow_epic, calls, files, stderr, warned, next_id, failures,
                    mapping_file >>

\* how the `bd show` subprocess can end: a record, an empty array, or no JSON
ShowOutcomes == { "record", "empty", "invalid_json" }

\* one iteration of the implicit-epic loop, lines 66-72, with get_bead, lines 32-39
FindImplicit ==
    /\ pc = "implicit"
    /\ pi <= Len(parents)
    /\ LET parent == parents[pi]
       IN  IF DictHas(epics, parent)
           THEN /\ pi' = pi + 1
                /\ UNCHANGED << pc, error, epics, standalone, shown >>
           ELSE \E outcome \in ShowOutcomes :
                  /\ shown' = Append(shown, [id |-> parent, outcome |-> outcome])
                  /\ CASE outcome = "invalid_json" ->
                             /\ Raise("JSONDecodeError")
                             /\ UNCHANGED << pi, epics, standalone >>
                       [] outcome = "empty" ->
                             /\ pi' = pi + 1
                             /\ UNCHANGED << pc, error, epics, standalone >>
                       [] outcome = "record" ->
                             /\ epics' = DictPut(epics, parent, ShownBead(parent))
                             /\ standalone' = DropStandalone(standalone, parent)
                             /\ pi' = pi + 1
                             /\ UNCHANGED << pc, error >>
    /\ UNCHANGED << source, listing, beads, subtasks, parents, bead_to_flow, epic_order, ei,
                    si, gi, ti, flow_epic, calls, files, stderr, warned, next_id, failures,
                    mapping_file >>

\* lines 74-91: epic_order and the pre-defined mapping of gno-ub9
MapPredefined ==
    /\ pc = "implicit"
    /\ pi > Len(parents)
    /\ epic_order' = EpicOrder(epics)
    /\ bead_to_flow' = DictPut(bead_to_flow, GNO_UB9, FN_1)
    /\ ei' = 1
    /\ pc' = "epics"
    /\ UNCHANGED << error, source, listing, beads, epics, subtasks, standalone, parents, pi,
                    shown, si, gi, ti, flow_epic, calls, files, stderr, warned, next_id,
                    failures, mapping_file >>

\* where main() goes on after the standalone loop, and after the epic loop
AfterStandalone == IF Len(subtasks) > 0 THEN "groups" ELSE "write"
AfterEpics == IF Len(standalone) > 0 THEN "standalone" ELSE AfterStandalone

\* one iteration of the epic loop, lines 92-116
CreateEpic ==
    /\ pc = "epics"
    /\ ei <= Len(epic_order)
    /\ LET eid == epic_order[ei]
           next == IF ei = Len(epic_order) THEN AfterEpics ELSE "epics"
       IN  IF eid = GNO_UB9
           THEN /\ pc' = next
                /\ ei' = ei + 1
                /\ UNCHANGED << error, bead_to_flow, calls, files, stderr, next_id, failures >>
           ELSE IF ~DictHas(epics, eid)
           THEN /\ Raise("KeyError")
                /\ UNCHANGED << ei, bead_to_flow, calls, files, stderr, next_id, failures >>
           ELSE \E outcome \in FlowctlOutcomes :
                  LET result == flowctl(outcome, EpicFlowId(next_id))
                  IN  /\ outcome # "created" => failures < MaxFailures
                      /\ calls' = Append(calls, Call("epic", NoFlow, eid, FALSE, result))
                      /\ stderr' = stderr + flowctlStderr(outcome)
                      /\ IF Succeeded(result)
                         THEN /\ bead_to_flow' = DictPut(bead_to_flow, eid, result.id)
                              /\ files' = files \cup { SpecFile(result.id) }
                              /\ next_id' = next_id + 1
                              /\ failures' = failures
                         ELSE /\ failures' = failures + 1
                              /\ UNCHANGED << bead_to_flow, files, next_id >>
                      /\ pc' = next
                      /\ ei' = ei + 1
                      /\ error' = error
    /\ si' = 1
    /\ gi' = 1
    /\ UNCHANGED << source, listing, beads, epics, subtasks, standalone, parents, pi, shown,
                    epic_order, ti, flow_epic, warned, mapping_file >>

\* one iteration of the standalone loop, lines 120-159
CreateStandalone ==
    /\ pc = "standalone"
    /\ si <= Len(standalone)
    /\ LET s == standalone[si]
       IN  \E outcome \in FlowctlOutcomes :
             LET result == flowctl(outcome, EpicFlowId(next_id))
                 epic_call == Call("epic", NoFlow, s.id, FALSE, result)
             IN  /\ outcome # "created" => failures < MaxFailures
                 /\ IF Succeeded(result)
                    THEN \E task_outcome \in FlowctlOutcomes :
                           LET task_result == flowctl(task_outcome, TaskFlowId(next_id + 1))
                           IN  /\ task_outcome # "created" => failures < MaxFailures
                               /\ bead_to_flow' = DictPut(bead_to_flow, s.id, result.id)
                               /\ calls' = calls \o << epic_call,
                                              Call("task", result.id, s.id, TRUE, task_result) >>
                               /\ stderr' = stderr + flowctlStderr(task_outcome)
                               /\ IF Succeeded(task_result)
                                  THEN /\ files' = files \cup { SpecFile(result.id),
                                                                 TaskFile(task_result.id) }
                                       /\ next_id' = next_id + 2
                                       /\ failures' = failures
                                  ELSE /\ files' = files \cup { SpecFile(result.id) }
                                       /\ next_id' = next_id + 1
                                       /\ failures' = failures + 1
                    ELSE /\ calls' = Append(calls, epic_call)
                         /\ stderr' = stderr + flowctlStderr(outcome)
                         /\ failures' = failures + 1
                         /\ UNCHANGED << bead_to_flow, files, next_id >>
    /\ si' = si + 1
    /\ pc' = IF si = Len(standalone) THEN AfterStandalone ELSE "standalone"
    /\ gi' = 1
    /\ UNCHANGED << error, source, listing, beads, epics, subtasks, standalone, parents, pi,
                    shown, epic_order, ei, ti, flow_epic, warned, mapping_file >>

\* the loop over subtasks.items() left after its first group
AfterGroupFirstOnly(g) == "write"

\* where main() goes on after the tasks of group g
AfterGroup(g) == IF g = Len(subtasks) THEN "write" ELSE "groups"

\* the head of one iteration of `for parent_id, tasks in subtasks.items()`, lines 163-172
StartGroup ==
    /\ pc = "groups"
    /\ gi <= Len(subtasks)
    /\ LET parent_id == subtasks[gi].key
           tasks == subtasks[gi].val
       IN  IF ~DictHas(bead_to_flow, parent_id)
           THEN /\ warned' = warned \cup { parent_id }
                /\ gi' = gi + 1
                /\ pc' = AfterGroup(gi)
                /\ UNCHANGED << error, subtasks, flow_epic, ti >>
           ELSE IF \E i \in 1..Len(tasks) : SortKeyRaises(tasks[i])
           THEN /\ Raise("ValueError")
                /\ flow_epic' = DictGet(bead_to_flow, parent_id)
                /\ UNCHANGED << warned, gi, subtasks, ti >>
           ELSE /\ flow_epic' = DictGet(bead_to_flow, parent_id)
                /\ subtasks' = DictPut(subtasks, parent_id, SortTasks(tasks))
                /\ ti' = 1
                /\ pc' = "tasks"
                /\ UNCHANGED << error, warned, gi >>
    /\ UNCHANGED << source, listing, beads, epics, standalone, parents, pi, shown,
                    bead_to_flow, epic_order, ei, si, calls, files, stderr, next_id, failures,
                    mapping_file >>

\* one iteration of `for task in tasks`, lines 174-205
CreateTask ==
    /\ pc = "tasks"
    /\ ti <= Len(subtasks[gi].val)
    /\ LET task == subtasks[gi].val[ti]
       IN  \E outcome \in FlowctlOutcomes :
             LET result == flowctl(outcome, TaskFlowId(next_id))
             IN  /\ outcome # "created" => failures < MaxFailures
                 /\ calls' = Append(calls, Call("task", flow_epic, task.id, FALSE, result))
                 /\ stderr' = stderr + flowctlStderr(outcome)
                 /\ IF Succeeded(result)
                    THEN /\ bead_to_flow' = DictPut(bead_to_flow, task.id, result.id)
                         /\ files' = files \cup { TaskFile(result.id) }
                         /\ next_id' = next_id + 1
                         /\ failures' = failures
                    ELSE /\ failures' = failures + 1
                         /\ UNCHANGED << bead_to_flow, files, next_id >>
    /\ IF ti = Len(subtasks[gi].val)
       THEN /\ ti' = 1
            /\ gi' = gi + 1
            /\ pc' = AfterGroup(gi)
       ELSE /\ ti' = ti + 1
            /\ UNCHANGED << gi, pc >>
    /\ UNCHANGED << error, source, listing, beads, epics, subtasks, standalone, parents, pi,
                    shown, epic_order, ei, si, flow_epic, warned, mapping_file >>

\* lines 207-213: the mapping file
WriteMapping ==
    /\ pc = "write"
    /\ mapping_file' = Append(mapping_file, bead_to_flow)
    /\ pc' = "done"
    /\ UNCHANGED << error, source, listing, beads, epics, subtasks, standalone, parents, pi,
                    shown, bead_to_flow, epic_order, ei, si, gi, ti, flow_epic, calls, files,
                    stderr, warned, next_id, failures >>

Next ==
    \/ GetBeads
    \/ Classify
    \/ FindImplicit
    \/ MapPredefined
    \/ CreateEpic
    \/ CreateStandalone
    \/ StartGroup
    \/ CreateTask
    \/ WriteMapping

Spec == Init /\ [][Next]_vars

\* ------------------------------------------------------------- vocabulary of the claims
KeySet(d) == SeqToSet(DictKeys(d))
ListedIds == { beads[i].id : i \in 1..Len(beads) }
StandaloneIds == { standalone[i].id : i \in 1..Len(standalone) }

\* the run ended: the mapping file is written, or an exception ended it
Ended == pc \in { "done", "crashed" }

\* the epics map as the classification pass leaves it
OpenEpics == ClassifyAll(EmptyClasses, beads).epics

\* the create calls issued for subtasks (the standalone "Implement:" task is none)
IsSubtaskCall(c) == c.cmd = "task" /\ ~c.implement
SubtaskCalls == { i \in 1..Len(calls) : IsSubtaskCall(calls[i]) }

\* a successful create call was made for the source id
CreatedFor(bid) ==
    \E i \in 1..Len(calls) :
        calls[i].src = bid /\ ~calls[i].implement /\ calls[i].created

\* the listed subtasks whose group was skipped with "Warning: No flow epic for ..."
SkippedIds == { bid \in ListedIds : HasDot(bid) /\ Parent(bid) \in warned }

\* the parents get_bead returned a record for
FetchedIds == { shown[i].id : i \in { j \in 1..Len(shown) : shown[j].outcome = "record" } }

ShownCount(bid) == Cardinality({ i \in 1..Len(shown) : shown[i].id = bid })

\* ------------------------------------------------------------- C1
C1Beads == << Bead(GNO_UB9, "epic"), Bead(UB9_1, "task"), Bead(UB9_2, "task") >>

\* C1: a run on exactly gno-ub9 (epic), gno-ub9.1 and gno-ub9.2 in which every create
\* call succeeds ends with the mapping file written, holding gno-ub9 -> fn-1 and an
\* entry for each of the two subtasks, the call for gno-ub9.1 issued before gno-ub9.2's.
C1_ScenarioWritesMapping ==
    (beads = C1Beads /\ failures = 0 /\ Ended) =>
        /\ pc = "done"
        /\ Len(mapping_file) = 1
        /\ DictHas(mapping_file[1], GNO_UB9)
        /\ DictGet(mapping_file[1], GNO_UB9) = FN_1
        /\ DictHas(mapping_file[1], UB9_1)
        /\ DictHas(mapping_file[1], UB9_2)
        /\ \E i, j \in SubtaskCalls :
              i < j /\ calls[i].src = UB9_1 /\ calls[j].src = UB9_2

\* ------------------------------------------------------------- C2
\* C2 as stated: after a completed run whose create calls all succeeded, the keys of
\* the written mapping are exactly the processed source ids (epics, standalone, subtasks).
C2_KeysAreProcessedIds ==
    (pc = "done" /\ failures = 0) =>
        KeySet(mapping_file[1]) = KeySet(epics) \cup StandaloneIds \cup { bid \in ListedIds : HasDot(bid) }

\* C2 amended: after a completed run whose create calls all succeeded, the written
\* mapping has one entry per key, and its keys are gno-ub9 (always), every parent
\* get_bead returned, and every listed bead that is not a subtask of a skipped group.
C2_KeysAreMigratedIds ==
    (pc = "done" /\ failures = 0) =>
        /\ Len(mapping_file) = 1
        /\ KeySet(mapping_file[1]) = ({ GNO_UB9 } \cup FetchedIds \cup ListedIds) \ (SkippedIds \ FetchedIds)
        /\ Cardinality(KeySet(mapping_file[1])) = Len(mapping_file[1])

\* a completed run without failed call that migrated standalone beads and subtasks
\* while gno-ub9 was no listed bead
C2_Witness ==
    /\ pc = "done" /\ failures = 0
    /\ Len(standalone) > 0 /\ Len(subtasks) > 0 /\ warned = {}
    /\ GNO_UB9 \notin ListedIds

\* ------------------------------------------------------------- C3
\* C3: a subtask whose create call failed (success = false, or no parsed result) is
\* not a key of the mapping and has no task spec file, and the run goes on: once it
\* completes, every subtask of every group that has a destination epic had its call.
C3_FailedTaskLeftOut ==
    /\ \A i \in SubtaskCalls :
          ~calls[i].created => ~DictHas(bead_to_flow, calls[i].src)
    /\ Cardinality({ f \in files : f.dir = "tasks" })
          = Cardinality({ i \in 1..Len(calls) : calls[i].cmd = "task" /\ calls[i].created })
    /\ pc = "done" =>
          \A bid \in ListedIds :
              (HasDot(bid) /\ Parent(bid) \notin warned) =>
                  \E i \in SubtaskCalls : calls[i].src = bid

\* ------------------------------------------------------------- C4
\* C4: every task create call for a subtask passes as --epic the id of an Epic: fn-1
\* for a subtask of gno-ub9, or the id an earlier successful epic create call for the
\* subtask's parent returned; never an id a task create call returned.
C4_TaskUnderEpic ==
    \A i \in SubtaskCalls :
        /\ calls[i].epic.kind = "epic"
        /\ \/ Parent(calls[i].src) = GNO_UB9 /\ calls[i].epic = FN_1
           \/ \E j \in 1..(i - 1) :
                 /\ calls[j].cmd = "epic"
                 /\ calls[j].src = Parent(calls[i].src)
                 /\ calls[j].created
                 /\ calls[j].id = calls[i].epic

C6_AppendOnly ==
    [][ /\ \A k \in KeySet(bead_to_flow) :
             DictHas(bead_to_flow', k) /\ DictGet(bead_to_flow', k) = DictGet(bead_to_flow, k)
        /\ Len(mapping_file) > 0 => (mapping_file' = mapping_file /\ calls' = calls)
        /\ pc' = "done" => Len(mapping_file') = 1 ]_vars

\* ------------------------------------------------------------- C7
\* C7: when the listing call fails or prints no valid JSON, get_beads reports it
\* and returns an empty or absent result: the run does not end in an exception.
C7_ListingFailureHandled ==
    listing \in { "exit_nonzero", "invalid_json" } =>
        /\ ~(pc = "crashed" /\ error = "JSONDecodeError")
        /\ stderr > 0
        /\ beads = << >>

\* ------------------------------------------------------------- C8
\* C8: the subtasks of an epic are sorted by the integer value of their suffix, a
\* suffix that is no integer counting as 0: the run does not abort on it, and the
\* subtask is migrated like the others.
C8_UnparsableSuffixIsZero ==
    /\ error # "ValueError"
    /\ (pc = "done" /\ failures = 0) =>
          \A bid \in ListedIds :
              (HasDot(bid) /\ IntRaises(Suffix(bid)) /\ Parent(bid) \notin warned) =>
                  CreatedFor(bid)

\* ------------------------------------------------------------- C9
\* two subtask create calls under the same epic with none between them
ConsecutiveUnderEpic(i, j) ==
    /\ i < j
    /\ IsSubtaskCall(calls[i]) /\ IsSubtaskCall(calls[j])
    /\ calls[i].epic = calls[j].epic
    /\ \A k \in (i + 1)..(j - 1) : IsSubtaskCall(calls[k]) => calls[k].epic # calls[i].epic

\* the integer value of the suffix of the source id of call i
CallSuffix(i) == IntOf(Suffix(calls[i].src))

\* C9 as stated: consecutive task create calls under one epic have strictly
\* ascending integer suffixes.
C9_StrictlyAscending ==
    \A i, j \in 1..Len(calls) : ConsecutiveUnderEpic(i, j) => CallSuffix(i) < CallSuffix(j)

\* C9 amended: consecutive task create calls under one epic have ascending integer
\* suffixes, not strictly: the earlier suffix is not larger than the later one
\* (distinct ids such as x.1 and x.01 have the same suffix value).
C9_Ascending ==
    \A i, j \in 1..Len(calls) : ConsecutiveUnderEpic(i, j) => CallSuffix(i) <= CallSuffix(j)

\* two consecutive calls under one epic that the listing held in the other order
C9_Witness ==
    \E i, j \in 1..Len(calls) :
        /\ ConsecutiveUnderEpic(i, j)
        /\ \E m, n \in 1..Len(beads) :
              m < n /\ beads[m].id = calls[j].src /\ beads[n].id = calls[i].src

\* ------------------------------------------------------------- C10
\* C10: get_bead is never called for a parent that is an open epic and never twice
\* for one id; when epic creation starts it has been called exactly once for every
\* parent of a subtask that the classification pass left out of epics, and a parent
\* it returned a record for is a key of epics and not in standalone.
C10_ImplicitEpicsFetchedOnce ==
    /\ \A i \in 1..Len(shown) :
          /\ ~DictHas(OpenEpics, shown[i].id)
          /\ DictHas(subtasks, shown[i].id)
          /\ ShownCount(shown[i].id) = 1
    /\ epic_order # << >> =>
          \A p \in KeySet(subtasks) :
              ~DictHas(OpenEpics, p) =>
                  /\ ShownCount(p) = 1
                  /\ p \in FetchedIds => (DictHas(epics, p) /\ p \notin StandaloneIds)

\* epic creation has started after get_bead returned a parent that the
\* classification pass had put in standalone
C10_Witness ==
    /\ epic_order # << >>
    /\ \E p \in FetchedIds :
          \E i \in 1..Len(beads) : beads[i].id = p /\ beads[i].issue_type # "epic"

====
